---- MODULE Spec2Model ----
(***************************************************************************)
(* Model of scripts/update-readme.py: the compose-file collector, the      *)
(* README header inventory, the stack consistency check, the section       *)
(* renderer, the manual-link preserver and the README rewrite.             *)
(*                                                                         *)
(* Text is modelled at two levels.  Names (service names, heading display  *)
(* names, link labels, stack keys) are sequences of one-character tokens,  *)
(* so that lower(), capitalize(), title(), strip() and the regular         *)
(* expression character classes are computed character by character.       *)
(* A document is a sequence of lines; a line is a record naming its kind   *)
(* (the section heading, another "## " heading, a "### " subheading, the   *)
(* rendered paragraph of one stack, ...) with the items it carries.        *)
(***************************************************************************)
EXTENDS Integers, Sequences, FiniteSets, TLC

VARIABLES
    readme,          \* README_PATH: [exists, lines]
    root_compose,    \* ROOT_COMPOSE: a file
    stack_dirs,      \* STACKS_DIR: sequence of [name, file], sorted by name
    stacks,          \* ReadmeUpdater.stacks: stack key -> list of services
    stack_headers,   \* ReadmeUpdater.stack_headers: sequence of [display, key]
    pc,              \* position of the process
    todo,            \* index of the next entry of sorted(STACKS_DIR.iterdir())
    exit_code,       \* value returned by main(): -1 while running
    content,         \* update_readme: the text read from README_PATH
    old_section,     \* update_readme: old_match.group(0)
    rendered,        \* update_readme: generate_service_section()
    new_section,     \* update_readme: the section after preserve_manual_enhancements
    valid,           \* result of validate_stacks
    report,          \* what validate_stacks printed: [disk_only, doc_only]
    parse_errors,    \* paths for which "Error parsing" was printed
    written,         \* README_PATH was opened for writing in this run
    runs,            \* number of runs started
    display_name,    \* input of the key normalization
    stack_key,       \* its result
    rekey            \* the result normalized once more

vars == <<readme, root_compose, stack_dirs, stacks, stack_headers, pc, todo,
          exit_code, content, old_section, rendered, new_section, valid, report,
          parse_errors, written, runs, display_name, stack_key, rekey>>

(***************************************************************************)
(* Bounds                                                                  *)
(***************************************************************************)
MaxNameLen == 3      \* length of the enumerated display names
MaxBody == 2         \* lines of the section body in an initial document
MaxRuns == 2         \* consecutive runs of the tool
MaxHeaders == 2      \* header entries drawn for the consistency check
MaxLinks == 2        \* hyperlinks in the previous section text

(***************************************************************************)
(* Characters.  "EMOJI" stands for a pictograph such as U+1F9E9, "I_DOT"   *)
(* for U+0130 (capital I with dot above), whose lower() is "i" followed by *)
(* "COMB_DOT", the combining dot above U+0307.                             *)
(***************************************************************************)
UpperLetters == <<"A","B","C","D","E","F","G","H","I","J","K","L","M",
                  "N","O","P","Q","R","S","T","U","V","W","X","Y","Z">>
LowerLetters == <<"a","b","c","d","e","f","g","h","i","j","k","l","m",
                  "n","o","p","q","r","s","t","u","v","w","x","y","z">>

Range(s) == {s[i] : i \in 1..Len(s)}

IsUpper(c) == c \in Range(UpperLetters)
IsLower(c) == c \in Range(LowerLetters)
IsLetter(c) == IsUpper(c) \/ IsLower(c)

IndexIn(c, s) == CHOOSE i \in 1..Len(s) : s[i] = c

\* \w of a str pattern: alphanumerics and the underscore ("I_DOT" is a letter,
\* "COMB_DOT" is a mark and "EMOJI" a symbol: neither is alphanumeric)
IsWordChar(c) == IsLetter(c) \/ c = "_" \/ c = "I_DOT"
\* \s
IsSpaceChar(c) == c = " "

\* str.lower() of one character
LowerChar(c) ==
    IF IsUpper(c) THEN <<LowerLetters[IndexIn(c, UpperLetters)]>>
    ELSE IF c = "I_DOT" THEN <<"i", "COMB_DOT">>
    ELSE <<c>>

\* str.upper() of one character
UpperChar(c) ==
    IF IsLower(c) THEN <<UpperLetters[IndexIn(c, LowerLetters)]>> ELSE <<c>>

RECURSIVE Lower(_)
Lower(s) == IF s = <<>> THEN <<>> ELSE LowerChar(Head(s)) \o Lower(Tail(s))

\* str.capitalize()
Capitalize(s) ==
    IF s = <<>> THEN <<>> ELSE UpperChar(Head(s)) \o Lower(Tail(s))

\* str.title(): a cased character is upper-cased after an uncased one
RECURSIVE TitleFrom(_, _)
TitleFrom(s, prevCased) ==
    IF s = <<>> THEN <<>>
    ELSE (IF prevCased THEN LowerChar(Head(s)) ELSE UpperChar(Head(s)))
         \o TitleFrom(Tail(s), IsLetter(Head(s)))

Title(s) == TitleFrom(s, FALSE)

\* str.strip()
RECURSIVE LStrip(_)
LStrip(s) ==
    IF s # <<>> /\ IsSpaceChar(Head(s)) THEN LStrip(Tail(s)) ELSE s

RECURSIVE RStrip(_)
RStrip(s) ==
    IF s # <<>> /\ IsSpaceChar(s[Len(s)])
    THEN RStrip(SubSeq(s, 1, Len(s) - 1)) ELSE s

Strip(s) == RStrip(LStrip(s))

\* re.sub(r"[^\w\s-]", "", s)
RECURSIVE DropSpecial(_)
DropSpecial(s) ==
    IF s = <<>> THEN <<>>
    ELSE IF IsWordChar(Head(s)) \/ IsSpaceChar(Head(s)) \/ Head(s) = "-"
         THEN <<Head(s)>> \o DropSpecial(Tail(s))
         ELSE DropSpecial(Tail(s))

\* re.sub(r"\s+", "-", s)
RECURSIVE HyphenateFrom(_, _)
HyphenateFrom(s, inRun) ==
    IF s = <<>> THEN <<>>
    ELSE IF IsSpaceChar(Head(s))
         THEN (IF inRun THEN <<>> ELSE <<"-">>) \o HyphenateFrom(Tail(s), TRUE)
         ELSE <<Head(s)>> \o HyphenateFrom(Tail(s), FALSE)

Hyphenate(s) == HyphenateFrom(s, FALSE)

\* sub in s
Contains(s, sub) ==
    \E i \in 0..(Len(s) - Len(sub)) : SubSeq(s, i + 1, i + Len(sub)) = sub

\* str.replace(c, "") for each c in cs
RECURSIVE Remove(_, _)
Remove(s, cs) ==
    IF s = <<>> THEN <<>>
    ELSE IF Head(s) \in cs THEN Remove(Tail(s), cs)
         ELSE <<Head(s)>> \o Remove(Tail(s), cs)

(***************************************************************************)
(* Stack keys                                                              *)
(***************************************************************************)
K_root == <<"r","o","o","t">>
K_app == <<"a","p","p">>
K_core == <<"c","o","r","e">>
K_data == <<"d","a","t","a">>
K_log == <<"l","o","g">>
K_media == <<"m","e","d","i","a">>

AppNames == {K_app, <<"a","p","p","s">>,
             <<"a","p","p","l","i","c","a","t","i","o","n">>,
             <<"a","p","p","l","i","c","a","t","i","o","n","s">>}
CoreNames == {K_core, <<"i","n","f","r","a","s","t","r","u","c","t","u","r","e">>,
              <<"i","n","f","r","a">>}
DataNames == {K_data, <<"d","a","t","a","b","a","s","e">>,
              <<"s","t","o","r","a","g","e">>}
LogNames == {K_log, <<"l","o","g","s">>, <<"l","o","g","g","i","n","g">>,
             <<"m","o","n","i","t","o","r","i","n","g">>}
MediaNames == {K_media, <<"m","o","v","i","e","s">>, <<"t","v">>,
               <<"e","n","t","e","r","t","a","i","n","m","e","n","t">>}

\* the cleaning of a display name, before the synonym table
CleanKey(display) == Hyphenate(Lower(Strip(DropSpecial(display))))

\* the synonym table, with "applications" missing
MapVariationsShort(k) ==
    IF Contains(k, K_root) THEN K_root
    ELSE IF k \in AppNames \ {<<"a","p","p","l","i","c","a","t","i","o","n","s">>}
         THEN K_app
    ELSE IF k \in CoreNames THEN K_core
    ELSE IF k \in DataNames THEN K_data
    ELSE IF k \in LogNames THEN K_log
    ELSE IF k \in MediaNames THEN K_media
    ELSE k

\* "Map common variations"
MapVariations(k) ==
    IF Contains(k, K_root) THEN K_root
    ELSE IF k \in AppNames THEN K_app
    ELSE IF k \in CoreNames THEN K_core
    ELSE IF k \in DataNames THEN K_data
    ELSE IF k \in LogNames THEN K_log
    ELSE IF k \in MediaNames THEN K_media
    ELSE k

\* the stack key of a subheading's display name
Normalize(display) == MapVariations(CleanKey(display))

(***************************************************************************)
(* Compose files                                                           *)
(***************************************************************************)
S_plex == <<"p","l","e","x">>
S_db == <<"d","b">>

\* one entry of data["services"]: kind is "service" (a mapping), "notmapping"
\* (not a dict) or "commented" (the raw text holds "# name:" on a line)
Entry(name, desc, kind) == [name |-> name, desc |-> desc, kind |-> kind]

\* a path of the config tree: kind is "absent" (no such file), "notdir" (an entry
\* of STACKS_DIR that is no directory), "bad" (reading or parsing raises) or "ok"
File(kind, entries) == [kind |-> kind, entries |-> entries]

Service(name, desc) == [name |-> name, desc |-> desc]

CharOrd(c) ==
    IF IsLower(c) THEN 96 + IndexIn(c, LowerLetters)
    ELSE IF IsUpper(c) THEN 64 + IndexIn(c, UpperLetters)
    ELSE IF c = " " THEN 32
    ELSE IF c = "-" THEN 45
    ELSE IF c = "_" THEN 95
    ELSE 1000

\* a < b for str
RECURSIVE StrLess(_, _)
StrLess(a, b) ==
    IF b = <<>> THEN FALSE
    ELSE IF a = <<>> THEN TRUE
    ELSE IF Head(a) = Head(b) THEN StrLess(Tail(a), Tail(b))
    ELSE CharOrd(Head(a)) < CharOrd(Head(b))

\* insertion of x into a list sorted by name.lower(), after its equals (stable)
RECURSIVE InsertSorted(_, _)
InsertSorted(x, sorted) ==
    IF sorted = <<>> THEN <<x>>
    ELSE IF StrLess(Lower(x.name), Lower(Head(sorted).name))
         THEN <<x>> \o sorted
         ELSE <<Head(sorted)>> \o InsertSorted(x, Tail(sorted))

\* services.sort(key=lambda x: x[0].lower())
RECURSIVE SortServices(_)
SortServices(s) ==
    IF s = <<>> THEN <<>>
    ELSE InsertSorted(s[Len(s)], SortServices(SubSeq(s, 1, Len(s) - 1)))

\* the loop over data["services"].items()
RECURSIVE KeptServices(_)
KeptServices(entries) ==
    IF entries = <<>> THEN <<>>
    ELSE (IF Head(entries).kind = "service"
          THEN <<Service(Head(entries).name, Head(entries).desc)>>
          ELSE <<>>) \o KeptServices(Tail(entries))

\* parse_compose_file with the except clause missing: the exception leaves it
ParseComposeFileRaises(file) ==
    IF file.kind = "absent" THEN [services |-> <<>>, logged |-> FALSE, raised |-> FALSE]
    ELSE IF file.kind = "bad" THEN [services |-> <<>>, logged |-> FALSE, raised |-> TRUE]
    ELSE [services |-> SortServices(KeptServices(file.entries)),
          logged |-> FALSE, raised |-> FALSE]

\* parse_compose_file: the list returned, whether "Error parsing" was printed,
\* and whether an exception leaves the function (never: it is caught)
ParseComposeFile(file) ==
    IF file.kind = "absent" THEN [services |-> <<>>, logged |-> FALSE, raised |-> FALSE]
    ELSE IF file.kind = "bad" THEN [services |-> <<>>, logged |-> TRUE, raised |-> FALSE]
    ELSE [services |-> SortServices(KeptServices(file.entries)),
          logged |-> FALSE, raised |-> FALSE]

(***************************************************************************)
(* Documents                                                               *)
(***************************************************************************)
\* an item of a line: form "bold" is **text**, "link" is [text](url),
\* "linkbold" is [**text**](url); desc follows as " - desc" when not empty
Item(form, text, url, desc) == [form |-> form, text |-> text, url |-> url, desc |-> desc]

\* a line: k is "sec" (the heading "## ... Stack/Service Lineup"), "h2" (another
\* line starting with "## "), "h3" ("### name"), "intro" (the sentence naming
\* Dockge), "para" (the services of one stack), "placeholder" ("_No services
\* defined_"), "blank" or "text"
Line(k, name, items) == [k |-> k, name |-> name, items |-> items]

W_Dockge == <<"D","o","c","k","g","e">>
DockgeUrl == "https://dockge.kuma.pet/"

SecLine == Line("sec", <<>>, <<>>)
H2Line == Line("h2", <<>>, <<>>)
TextLine == Line("text", <<>>, <<>>)
BlankLine == Line("blank", <<>>, <<>>)
PlaceholderLine == Line("placeholder", <<>>, <<>>)
IntroLine == Line("intro", <<>>, <<Item("link", W_Dockge, DockgeUrl, "")>>)
H3Line(name) == Line("h3", name, <<>>)
ParaLine(items) == Line("para", <<>>, items)

\* a line starting with "## "
IsTopHeading(l) == l.k \in {"sec", "h2"}

SecStarts(lines) == {i \in 1..Len(lines) : lines[i].k = "sec"}

Min(S) == CHOOSE x \in S : \A y \in S : x <= y

\* the end (exclusive) of the match starting at line i: (?=\n## |\Z)
SectionEnd(lines, i) ==
    Min({j \in (i + 1)..Len(lines) : IsTopHeading(lines[j])} \cup {Len(lines) + 1})

\* re.search(pattern, content, re.DOTALL): the first match
HasSection(lines) == SecStarts(lines) # {}
SectionStart(lines) == Min(SecStarts(lines))
SectionOf(lines) ==
    SubSeq(lines, SectionStart(lines), SectionEnd(lines, SectionStart(lines)) - 1)

\* re.sub(pattern, new, content, flags=re.DOTALL): every match is replaced
RECURSIVE ReplaceFrom(_, _, _)
ReplaceFrom(lines, i, new) ==
    IF i > Len(lines) THEN <<>>
    ELSE IF lines[i].k = "sec"
         THEN new \o ReplaceFrom(lines, SectionEnd(lines, i), new)
         ELSE <<lines[i]>> \o ReplaceFrom(lines, i + 1, new)

ReplaceSections(lines, new) == ReplaceFrom(lines, 1, new)

(***************************************************************************)
(* Header inventory                                                        *)
(***************************************************************************)
Header(display, key) == [display |-> display, key |-> key]

\* the loop over re.finditer(header_pattern, section_content)
RECURSIVE HeadersOf(_)
HeadersOf(section) ==
    IF section = <<>> THEN <<>>
    ELSE (IF Head(section).k = "h3"
          THEN <<Header(Strip(Head(section).name), Normalize(Strip(Head(section).name)))>>
          ELSE <<>>) \o HeadersOf(Tail(section))

\* parse_existing_stack_headers without the "if not headers" test
ParseHeadersUnchecked(lines) ==
    IF ~HasSection(lines) THEN [error |-> "nosection", headers |-> <<>>]
    ELSE [error |-> "", headers |-> HeadersOf(SectionOf(lines))]

\* parse_existing_stack_headers: error is "nosection", "noheaders" or "" (none)
ParseExistingStackHeaders(lines) ==
    IF ~HasSection(lines) THEN [error |-> "nosection", headers |-> <<>>]
    ELSE IF HeadersOf(SectionOf(lines)) = <<>>
         THEN [error |-> "noheaders", headers |-> <<>>]
         ELSE [error |-> "", headers |-> HeadersOf(SectionOf(lines))]

(***************************************************************************)
(* Consistency check                                                       *)
(***************************************************************************)
HeaderKeys(headers) == {headers[i].key : i \in 1..Len(headers)}

\* validate_stacks checking only the stacks missing from the README
ValidateStacksOneWay(headers, st) ==
    LET readme_stacks == HeaderKeys(headers)
        actual_stacks == DOMAIN st
        missing_in_readme == actual_stacks \ readme_stacks
    IN  [ok |-> missing_in_readme = {},
         disk_only |-> missing_in_readme,
         doc_only |-> {}]

\* validate_stacks: its result and the keys it prints
ValidateStacks(headers, st) ==
    LET readme_stacks == HeaderKeys(headers)
        actual_stacks == DOMAIN st
        missing_in_readme == actual_stacks \ readme_stacks
        missing_in_filesystem == readme_stacks \ actual_stacks
    IN  [ok |-> missing_in_readme = {} /\ missing_in_filesystem = {},
         disk_only |-> missing_in_readme,
         doc_only |-> missing_in_filesystem]

(***************************************************************************)
(* Section renderer                                                        *)
(***************************************************************************)
\* generate_markdown_table: one item per service, joined into one paragraph
RECURSIVE TableItems(_)
TableItems(services) ==
    IF services = <<>> THEN <<>>
    ELSE <<Item("bold", Capitalize(Head(services).name), "", Head(services).desc)>>
         \o TableItems(Tail(services))

ServicesOf(st, key) == IF key \in DOMAIN st THEN st[key] ELSE <<>>

\* the loop over self.stack_headers
RECURSIVE HeaderBlocks(_, _)
HeaderBlocks(headers, st) ==
    IF headers = <<>> THEN <<>>
    ELSE <<H3Line(Head(headers).display), BlankLine,
           IF ServicesOf(st, Head(headers).key) # <<>>
           THEN ParaLine(TableItems(ServicesOf(st, Head(headers).key)))
           ELSE PlaceholderLine,
           BlankLine>>
         \o HeaderBlocks(Tail(headers), st)

\* generate_service_section
GenerateServiceSection(headers, st) ==
    <<SecLine, BlankLine, IntroLine, BlankLine>> \o HeaderBlocks(headers, st)

(***************************************************************************)
(* Enhancement preserver                                                   *)
(***************************************************************************)
Stars == <<"*","*">>

\* what link_pattern captures from one item: group(1).strip() and group(2)
LinkOf(item) ==
    IF item.form = "link" THEN <<[text |-> Strip(item.text), url |-> item.url]>>
    ELSE IF item.form = "linkbold"
         THEN <<[text |-> Strip(Stars \o item.text \o Stars), url |-> item.url]>>
         ELSE <<>>

RECURSIVE LinksOfItems(_)
LinksOfItems(items) ==
    IF items = <<>> THEN <<>>
    ELSE LinkOf(Head(items)) \o LinksOfItems(Tail(items))

\* re.finditer(link_pattern, old_section), in text order
RECURSIVE LinksOfLines(_)
LinksOfLines(lines) ==
    IF lines = <<>> THEN <<>>
    ELSE LinksOfItems(Head(lines).items) \o LinksOfLines(Tail(lines))

\* link_text.lower().replace(" ", "").replace("-", "").replace("_", "")
LinkKey(text) == Remove(Lower(text), {" ", "-", "_"})

\* manual_links.setdefault(key, ...): the first link of a key is kept
RECURSIVE DictSetFirst(_, _)
DictSetFirst(dict, e) ==
    IF dict = <<>> THEN <<e>>
    ELSE IF Head(dict).key = e.key THEN dict
         ELSE <<Head(dict)>> \o DictSetFirst(Tail(dict), e)

\* manual_links[key] = (link_text, link_url): a dict keeps a key's first position
\* and its last value
RECURSIVE DictSet(_, _)
DictSet(dict, e) ==
    IF dict = <<>> THEN <<e>>
    ELSE IF Head(dict).key = e.key THEN <<e>> \o Tail(dict)
         ELSE <<Head(dict)>> \o DictSet(Tail(dict), e)

RECURSIVE ManualLinksFrom(_, _)
ManualLinksFrom(links, dict) ==
    IF links = <<>> THEN dict
    ELSE ManualLinksFrom(Tail(links),
            DictSet(dict, [key |-> LinkKey(Head(links).text),
                           text |-> Head(links).text, url |-> Head(links).url]))

ManualLinks(old) == ManualLinksFrom(LinksOfLines(old), <<>>)

\* the patterns tried for one link text, each the text between two "**"
Patterns(text) ==
    <<Stars \o text \o Stars, Stars \o Lower(text) \o Stars,
      Stars \o Capitalize(text) \o Stars, Stars \o Title(text) \o Stars>>

\* the pattern matches the text of the item, ignoring case.  Only a "bold" item
\* can hold it: the "**" inside a "linkbold" item is that of a link text applied
\* before, whose key is then the key of this one.
MatchesItem(pattern, item) ==
    item.form = "bold" /\ Lower(Stars \o item.text \o Stars) = Lower(pattern)

\* re.search(pattern, result, re.IGNORECASE)
Found(pattern, lines) ==
    \E i \in 1..Len(lines) : \E j \in 1..Len(lines[i].items) :
        MatchesItem(pattern, lines[i].items[j])

\* re.sub(pattern, "[**text**](url)", result, flags=re.IGNORECASE)
SubLinks(pattern, e, lines) ==
    [i \in 1..Len(lines) |->
        [lines[i] EXCEPT !.items =
            [j \in 1..Len(lines[i].items) |->
                IF MatchesItem(pattern, lines[i].items[j])
                THEN Item("linkbold", e.text, e.url, lines[i].items[j].desc)
                ELSE lines[i].items[j]]]]

\* the first pattern found is substituted, the others are not tried
RECURSIVE ApplyPatterns(_, _, _)
ApplyPatterns(pats, e, lines) ==
    IF pats = <<>> THEN lines
    ELSE IF Found(Head(pats), lines) THEN SubLinks(Head(pats), e, lines)
         ELSE ApplyPatterns(Tail(pats), e, lines)

RECURSIVE ApplyLinks(_, _)
ApplyLinks(dict, lines) ==
    IF dict = <<>> THEN lines
    ELSE ApplyLinks(Tail(dict), ApplyPatterns(Patterns(Head(dict).text), Head(dict), lines))

\* preserve_manual_enhancements
PreserveManualEnhancements(old, new) == ApplyLinks(ManualLinks(old), new)

(***************************************************************************)
(* The run: main(), collect_services(), update_readme()                    *)
(***************************************************************************)
EmptyStacks == [k \in {} |-> <<>>]
NoReport == [disk_only |-> {}, doc_only |-> {}]
NoContent == [read |-> FALSE, lines |-> <<>>]
RootPath == <<".">>

\* "if services: self.stacks[key] = services" without the test
StoreAlways(st, key, services) == (key :> services) @@ st

\* if services: self.stacks[key] = services
Store(st, key, services) ==
    IF services # <<>> THEN (key :> services) @@ st ELSE st

\* main() returning 0 whatever update_readme returned
ExitCodeZero(success) == 0

\* main(): return 0 if success else 1
ExitCode(success) == IF success THEN 0 ELSE 1

AfterCollect(t) == IF t > Len(stack_dirs) THEN "update" ELSE "collect_stacks"

\* an exception that nothing catches ends the process with a traceback
Crash ==
    /\ pc' = "crashed"
    /\ exit_code' = 1
    /\ UNCHANGED <<stacks, parse_errors, todo>>

\* collect_services, "Root compose"
CollectRoot ==
    /\ pc = "collect_root"
    /\ LET res == ParseComposeFile(root_compose)
       IN  IF root_compose.kind = "absent"
           THEN /\ pc' = AfterCollect(1)
                /\ UNCHANGED <<stacks, parse_errors, todo, exit_code>>
           ELSE IF res.raised
           THEN Crash
           ELSE /\ stacks' = Store(stacks, K_root, res.services)
                /\ parse_errors' = IF res.logged THEN parse_errors \cup {RootPath}
                                   ELSE parse_errors
                /\ pc' = AfterCollect(1)
                /\ UNCHANGED <<todo, exit_code>>
    /\ UNCHANGED <<readme, root_compose, stack_dirs, stack_headers, content,
                   old_section, rendered, new_section, valid, report, written, runs,
                   display_name, stack_key, rekey>>

\* collect_services, one iteration of the loop over sorted(STACKS_DIR.iterdir())
CollectStack ==
    /\ pc = "collect_stacks"
    /\ todo <= Len(stack_dirs)
    /\ LET d == stack_dirs[todo]
           res == ParseComposeFile(d.file)
       IN  IF d.file.kind = "notdir"
           THEN /\ todo' = todo + 1
                /\ pc' = AfterCollect(todo + 1)
                /\ UNCHANGED <<stacks, parse_errors, exit_code>>
           ELSE IF res.raised
           THEN Crash
           ELSE /\ stacks' = Store(stacks, d.name, res.services)
                /\ parse_errors' = IF res.logged THEN parse_errors \cup {d.name}
                                   ELSE parse_errors
                /\ todo' = todo + 1
                /\ pc' = AfterCollect(todo + 1)
                /\ UNCHANGED exit_code
    /\ UNCHANGED <<readme, root_compose, stack_dirs, stack_headers, content,
                   old_section, rendered, new_section, valid, report, written, runs,
                   display_name, stack_key, rekey>>

\* update_readme returning False, and main returning after it
Failed ==
    /\ exit_code' = ExitCode(FALSE)
    /\ pc' = "done"
    /\ UNCHANGED <<readme, old_section, rendered, new_section, written>>

\* update_readme, and main's return of its result.  The else branch of
\* "if old_match" is not modelled: parse_existing_stack_headers has raised when
\* the same pattern does not match the same content.
UpdateReadme ==
    /\ pc = "update"
    /\ IF ~readme.exists
       THEN /\ Failed
            /\ UNCHANGED <<content, stack_headers, valid, report>>
       ELSE LET lines == readme.lines
                parsed == ParseExistingStackHeaders(lines)
                check == ValidateStacks(parsed.headers, stacks)
                fresh == GenerateServiceSection(parsed.headers, stacks)
                merged == PreserveManualEnhancements(SectionOf(lines), fresh)
            IN  /\ content' = [read |-> TRUE, lines |-> lines]
                /\ IF parsed.error # ""
                   THEN /\ Failed
                        /\ UNCHANGED <<stack_headers, valid, report>>
                   ELSE /\ stack_headers' = parsed.headers
                        /\ valid' = check.ok
                        /\ report' = [disk_only |-> check.disk_only,
                                      doc_only |-> check.doc_only]
                        /\ IF ~check.ok
                           THEN Failed
                           ELSE /\ rendered' = fresh
                                /\ old_section' = SectionOf(lines)
                                /\ new_section' = merged
                                /\ readme' = [exists |-> TRUE,
                                              lines |-> ReplaceSections(lines, merged)]
                                /\ written' = TRUE
                                /\ exit_code' = ExitCode(TRUE)
                                /\ pc' = "done"
    /\ UNCHANGED <<root_compose, stack_dirs, stacks, todo, parse_errors, runs,
                   display_name, stack_key, rekey>>

\* the tool is started again after a run that succeeded: a new process, a new
\* ReadmeUpdater
StartRun ==
    /\ pc \in {"done", "edited"}
    /\ exit_code = 0
    /\ runs < MaxRuns
    /\ runs' = runs + 1
    /\ pc' = "collect_root"
    /\ todo' = 1
    /\ exit_code' = -1
    /\ stacks' = EmptyStacks
    /\ stack_headers' = <<>>
    /\ content' = NoContent
    /\ old_section' = <<>>
    /\ rendered' = <<>>
    /\ new_section' = <<>>
    /\ valid' = FALSE
    /\ report' = NoReport
    /\ parse_errors' = {}
    /\ written' = FALSE
    /\ UNCHANGED <<readme, root_compose, stack_dirs, display_name, stack_key, rekey>>

ManualUrls == {"https://a.example.com", "https://b.example.com"}

\* between two runs a person wraps one rendered service name in a hyperlink:
\* **Name** becomes [Name](url) or [name](url)
HumanEdit ==
    /\ pc = "done"
    /\ exit_code = 0
    /\ runs < MaxRuns
    /\ readme.exists
    /\ \E i \in 1..Len(readme.lines) :
         /\ readme.lines[i].k = "para"
         /\ \E j \in 1..Len(readme.lines[i].items) :
              LET it == readme.lines[i].items[j]
              IN  /\ it.form = "bold"
                  /\ \E t \in {it.text, Lower(it.text)} : \E u \in ManualUrls :
                       readme' = [readme EXCEPT
                                    !.lines[i].items[j] = Item("link", t, u, it.desc)]
    /\ pc' = "edited"
    /\ UNCHANGED <<root_compose, stack_dirs, stacks, stack_headers, todo, exit_code,
                   content, old_section, rendered, new_section, valid, report,
                   parse_errors, written, runs, display_name, stack_key, rekey>>

(***************************************************************************)
(* Initial states of the run: the config tree and the document             *)
(***************************************************************************)
SeqsUpTo(S, n) == UNION {[1..m -> S] : m \in 0..n}

H_Root == <<"EMOJI", " ", "R","o","o","t">>
H_Apps == <<"A","p","p","s">>
D_app == <<"a","p","p">>
D_apps == <<"a","p","p","s">>

E_plex == Entry(S_plex, "", "service")
E_db == Entry(S_db, "database", "service")

RootFiles == {File("absent", <<>>), File("bad", <<>>), File("ok", <<E_plex>>)}

DirFiles == {File("absent", <<>>), File("notdir", <<>>), File("bad", <<>>),
             File("ok", <<E_plex>>), File("ok", <<E_plex, E_db>>),
             File("ok", <<Entry(S_plex, "", "commented"),
                          Entry(S_db, "", "notmapping")>>)}

AppsFiles == {File("bad", <<>>), File("ok", <<E_plex>>)}

\* sorted(STACKS_DIR.iterdir()): "app" sorts before "apps"
DirTrees ==
    {a \o b : a \in {<<>>} \cup {<<[name |-> D_app, file |-> f]>> : f \in DirFiles},
              b \in {<<>>} \cup {<<[name |-> D_apps, file |-> f]>> : f \in AppsFiles}}

BodyLines == {H3Line(H_Root), H3Line(H_Apps),
              ParaLine(<<Item("link", Capitalize(S_plex), "https://a.example.com", "")>>)}

Tails == {<<>>, <<H2Line, TextLine>>,
          <<H2Line, TextLine, SecLine, H3Line(H_Apps), TextLine>>}

Documents ==
    {[exists |-> FALSE, lines |-> <<>>]}
    \cup {[exists |-> TRUE, lines |-> <<TextLine>> \o t] : t \in Tails \ {<<>>}}
    \cup {[exists |-> TRUE, lines |-> <<TextLine, SecLine>> \o b \o t] :
            b \in SeqsUpTo(BodyLines, MaxBody), t \in Tails}

Idle ==
    /\ stacks = EmptyStacks
    /\ stack_headers = <<>>
    /\ todo = 1
    /\ exit_code = -1
    /\ content = NoContent
    /\ old_section = <<>>
    /\ rendered = <<>>
    /\ new_section = <<>>
    /\ valid = FALSE
    /\ report = NoReport
    /\ parse_errors = {}
    /\ written = FALSE
    /\ runs = 1
    /\ display_name = <<>>
    /\ stack_key = <<>>
    /\ rekey = <<>>

Init ==
    /\ readme \in Documents
    /\ root_compose \in RootFiles
    /\ stack_dirs \in DirTrees
    /\ pc = "collect_root"
    /\ Idle

Next == CollectRoot \/ CollectStack \/ UpdateReadme \/ StartRun \/ HumanEdit

Spec == Init /\ [][Next]_vars

(***************************************************************************)
(* The key normalization alone, applied to a display name and then to its  *)
(* own result                                                              *)
(***************************************************************************)
NameChars == {"A", "p", " ", "-", "_", "EMOJI", "I_DOT"}

N_App == <<"A","p","p">>
N_Apps == <<"A","p","p","s">>
N_Application == <<"A","p","p","l","i","c","a","t","i","o","n">>
N_Applications == <<"A","p","p","l","i","c","a","t","i","o","n","s">>

NamedDisplays == {N_App, N_Apps, N_Application, N_Applications, H_Root,
                  <<"L","o","g","g","i","n","g">>,
                  <<"M","y"," ","S","t","a","c","k">>,
                  <<"EMOJI"," ","R","o","o","t"," ","A","p","p","s">>}

DisplayNames == SeqsUpTo(NameChars, MaxNameLen) \cup NamedDisplays

NoDisk ==
    /\ readme = [exists |-> FALSE, lines |-> <<>>]
    /\ root_compose = File("absent", <<>>)
    /\ stack_dirs = <<>>
    /\ todo = 1
    /\ exit_code = -1
    /\ content = NoContent
    /\ parse_errors = {}
    /\ written = FALSE
    /\ runs = 1

InitNormalize ==
    /\ display_name \in DisplayNames
    /\ stack_key = <<>>
    /\ rekey = <<>>
    /\ pc = "normalize"
    /\ NoDisk
    /\ stacks = EmptyStacks
    /\ stack_headers = <<>>
    /\ old_section = <<>>
    /\ rendered = <<>>
    /\ new_section = <<>>
    /\ valid = FALSE
    /\ report = NoReport

NormalizeStep ==
    /\ pc = "normalize"
    /\ stack_key' = Normalize(display_name)
    /\ pc' = "renormalize"
    /\ UNCHANGED <<readme, root_compose, stack_dirs, stacks, stack_headers, todo,
                   exit_code, content, old_section, rendered, new_section, valid,
                   report, parse_errors, written, runs, display_name, rekey>>

RenormalizeStep ==
    /\ pc = "renormalize"
    /\ rekey' = Normalize(stack_key)
    /\ pc' = "normalized"
    /\ UNCHANGED <<readme, root_compose, stack_dirs, stacks, stack_headers, todo,
                   exit_code, content, old_section, rendered, new_section, valid,
                   report, parse_errors, written, runs, display_name, stack_key>>

NextNormalize == NormalizeStep \/ RenormalizeStep

SpecNormalize == InitNormalize /\ [][NextNormalize]_vars

(***************************************************************************)
(* The consistency check alone, on the updater's two fields                *)
(***************************************************************************)
CheckKeys == {K_root, K_core, K_media}

CheckHeaders == {Header(Capitalize(k), Normalize(Capitalize(k))) : k \in CheckKeys}

InitValidate ==
    /\ \E S \in SUBSET CheckKeys :
         stacks = [k \in S |-> <<Service(S_plex, "")>>]
    /\ stack_headers \in SeqsUpTo(CheckHeaders, MaxHeaders) \ {<<>>}
    /\ pc = "validate"
    /\ NoDisk
    /\ old_section = <<>>
    /\ rendered = <<>>
    /\ new_section = <<>>
    /\ valid = FALSE
    /\ report = NoReport
    /\ display_name = <<>>
    /\ stack_key = <<>>
    /\ rekey = <<>>

ValidateStep ==
    /\ pc = "validate"
    /\ LET check == ValidateStacks(stack_headers, stacks)
       IN  /\ valid' = check.ok
           /\ report' = [disk_only |-> check.disk_only, doc_only |-> check.doc_only]
    /\ pc' = "validated"
    /\ UNCHANGED <<readme, root_compose, stack_dirs, stacks, stack_headers, todo,
                   exit_code, content, old_section, rendered, new_section,
                   parse_errors, written, runs, display_name, stack_key, rekey>>

SpecValidate == InitValidate /\ [][ValidateStep]_vars

(***************************************************************************)
(* The enhancement preserver alone, on a previous and a rendered section   *)
(***************************************************************************)
W_Plex == <<"P","l","e","x">>
PlexUrl == "https://plex.example.com"

LinkLabels == {W_Plex, S_plex, <<"P","-","l","e","x">>, <<"D","b">>}
LinkUrls == {PlexUrl, "https://b.example.com"}

OldItems == {Item("link", t, u, "") : t \in LinkLabels, u \in LinkUrls}
            \cup {Item("linkbold", W_Plex, PlexUrl, "")}

OldSections ==
    {<<SecLine, BlankLine, IntroLine, BlankLine, H3Line(H_Root), BlankLine,
       ParaLine(items), BlankLine>> : items \in SeqsUpTo(OldItems, MaxLinks) \ {<<>>}}

RenderedSections ==
    {GenerateServiceSection(<<Header(H_Root, K_root)>>, (K_root :> services)) :
        services \in {<<Service(S_plex, "")>>,
                      <<Service(S_db, "database"), Service(S_plex, "")>>}}

InitPreserve ==
    /\ old_section \in OldSections
    /\ rendered \in RenderedSections
    /\ new_section = <<>>
    /\ pc = "preserve"
    /\ NoDisk
    /\ stacks = EmptyStacks
    /\ stack_headers = <<>>
    /\ valid = FALSE
    /\ report = NoReport
    /\ display_name = <<>>
    /\ stack_key = <<>>
    /\ rekey = <<>>

PreserveStep ==
    /\ pc = "preserve"
    /\ new_section' = PreserveManualEnhancements(old_section, rendered)
    /\ pc' = "preserved"
    /\ UNCHANGED <<readme, root_compose, stack_dirs, stacks, stack_headers, todo,
                   exit_code, content, old_section, rendered, valid, report,
                   parse_errors, written, runs, display_name, stack_key, rekey>>

SpecPreserve == InitPreserve /\ [][PreserveStep]_vars

(***************************************************************************)
(* Properties                                                              *)
(***************************************************************************)
\* the items of a text, wherever they stand
ItemsIn(lines) == UNION {Range(lines[i].items) : i \in 1..Len(lines)}

\* a hyperlink to url around the name text: [text](url) or [**text**](url)
IsLinkAround(item, text, url) ==
    /\ item.form \in {"link", "linkbold"}
    /\ item.url = url
    /\ Lower(item.text) = Lower(text)

\* the document as this run read it passes every check of update_readme
ChecksPass ==
    /\ content.read
    /\ HasSection(content.lines)
    /\ HeadersOf(SectionOf(content.lines)) # <<>>
    /\ HeaderKeys(HeadersOf(SectionOf(content.lines))) = DOMAIN stacks

\* C1: the document is written only when it was found, the section and its
\* subheadings were found and the stack keys of disk and document are equal; on
\* every failure path the file holds after the run what it held before it.
C1_WriteOnlyAfterChecks ==
    pc = "done" =>
        /\ written => ChecksPass
        /\ ~ChecksPass =>
             /\ ~written
             /\ IF content.read
                THEN readme = [exists |-> TRUE, lines |-> content.lines]
                ELSE ~readme.exists

\* a run that failed on a key mismatch and left the document as it was
C1_Witness ==
    /\ pc = "done"
    /\ exit_code = 1
    /\ content.read
    /\ report.disk_only # {}
    /\ report.doc_only # {}
    /\ readme.lines = content.lines

\* C2: across every successful run, a hyperlink to url around the name of a
\* service that is still rendered is still in the section, around that name.
C2_LinkSurvives ==
    [][(pc = "update" /\ pc' = "done" /\ written') =>
        \A old \in ItemsIn(SectionOf(readme.lines)) :
            (/\ old.form \in {"link", "linkbold"}
             /\ \E r \in ItemsIn(rendered') :
                    r.form = "bold" /\ Lower(r.text) = Lower(old.text))
            => \E new \in ItemsIn(SectionOf(readme'.lines)) :
                    IsLinkAround(new, old.text, old.url)]_vars

\* C3: the consistency check passes exactly when the keys of the stacks that
\* have services are the keys of the header inventory; when it fails, a key is
\* reported disk-only exactly when no header has it, document-only exactly when
\* no stack has it.
C3_ValidateIffEqual ==
    pc = "validated" =>
        /\ valid <=> (DOMAIN stacks = HeaderKeys(stack_headers))
        /\ ~valid =>
             \A k \in CheckKeys :
                /\ k \in report.disk_only <=>
                     (k \in DOMAIN stacks /\ k \notin HeaderKeys(stack_headers))
                /\ k \in report.doc_only <=>
                     (k \notin DOMAIN stacks /\ k \in HeaderKeys(stack_headers))

\* disk {root, core} against document {root, media}
C3_Witness ==
    /\ pc = "validated"
    /\ DOMAIN stacks = {K_root, K_core}
    /\ HeaderKeys(stack_headers) = {K_root, K_media}
    /\ ~valid
    /\ report = [disk_only |-> {K_core}, doc_only |-> {K_media}]

\* C4: a stack's key from its directory name and the key from a subheading
\* that denotes the same stack (the two names normalize alike) are equal.
C4_SameNormalization ==
    pc = "done" =>
        \A i \in 1..Len(stack_headers) : \A k \in DOMAIN stacks :
            Normalize(stack_headers[i].display) = Normalize(k)
                => stack_headers[i].key = k

\* C5: a successful run leaves the text before the section heading and the
\* text from the next "## " heading on as they were read.
C5_OnlySectionReplaced ==
    (pc = "done" /\ written) =>
        LET old == content.lines
            new == readme.lines
            s == SectionStart(old)
            e == SectionEnd(old, s)
            n == Len(old) - e + 1
        IN  /\ Len(new) >= s - 1 + n
            /\ SubSeq(new, 1, s - 1) = SubSeq(old, 1, s - 1)
            /\ SubSeq(new, Len(new) - n + 1, Len(new)) = SubSeq(old, e, Len(old))

\* the compose file of directory i of the tree, when it holds services
DirServices(i) ==
    IF stack_dirs[i].file.kind = "ok"
    THEN SortServices(KeptServices(stack_dirs[i].file.entries))
    ELSE <<>>

\* C6: a config file that fails to parse never ends the run: it adds no stack
\* entry, every other directory's file is still collected, and the run ends
\* with the result the remaining stacks give.
C6_ParseFailureContinues ==
    /\ pc # "crashed"
    /\ \A path \in parse_errors :
          IF path = RootPath THEN K_root \notin DOMAIN stacks
          ELSE path \notin DOMAIN stacks
    /\ pc \in {"update", "done"} =>
          \A i \in 1..Len(stack_dirs) :
             /\ stack_dirs[i].file.kind = "bad" => stack_dirs[i].name \in parse_errors
             /\ DirServices(i) # <<>> =>
                  /\ stack_dirs[i].name \in DOMAIN stacks
                  /\ stacks[stack_dirs[i].name] = DirServices(i)
    /\ (pc = "done" /\ parse_errors # {}) =>
          exit_code = IF ChecksPass THEN 0 ELSE 1

\* the root file failed to parse, the stack after it was collected and the
\* run succeeded
C6_Witness ==
    /\ pc = "done"
    /\ RootPath \in parse_errors
    /\ D_app \in DOMAIN stacks
    /\ exit_code = 0
    /\ written

\* C7 as stated: normalizing a key again returns it, for every display name.
C7_Idempotent ==
    pc = "normalized" => rekey = stack_key

\* C7: normalizing a key again returns it, for every display name without
\* U+0130; "App", "Apps", "Application" and "Applications" all give "app".
C7_IdempotentWithoutDottedI ==
    /\ (pc = "normalized" /\ "I_DOT" \notin Range(display_name)) => rekey = stack_key
    /\ (pc \in {"renormalize", "normalized"}
        /\ display_name \in {N_App, N_Apps, N_Application, N_Applications})
           => stack_key = K_app

C7_Witness ==
    /\ pc = "normalized"
    /\ display_name = N_Applications
    /\ stack_key = K_app
    /\ rekey = K_app

\* the bold form of a link text is in the rendered text, in one of its four
\* spellings
BoldRendered(text, lines) ==
    \E r \in ItemsIn(lines) :
        r.form = "bold" /\ r.text \in {text, Lower(text), Capitalize(text), Title(text)}

\* the text holds [**text**](url)
HasLinkBold(lines, text, url) ==
    \E it \in ItemsIn(lines) :
        it.form = "linkbold" /\ it.text = text /\ it.url = url

C9_ExitCode ==
    pc = "done" =>
        /\ exit_code \in {0, 1}
        /\ exit_code = 0 <=> written
        /\ ~content.read => exit_code = 1
        /\ (content.read /\ ~HasSection(content.lines)) => exit_code = 1
        /\ (content.read /\ HasSection(content.lines)
            /\ HeadersOf(SectionOf(content.lines)) = <<>>) => exit_code = 1
        /\ (content.read /\ HasSection(content.lines)
            /\ HeaderKeys(HeadersOf(SectionOf(content.lines))) # DOMAIN stacks)
              => exit_code = 1

\* a run that found the section without a subheading and returned 1
C9_Witness ==
    /\ pc = "done"
    /\ exit_code = 1
    /\ ~written
    /\ content.read
    /\ HasSection(content.lines)
    /\ HeadersOf(SectionOf(content.lines)) = <<>>

\* C10: after a run that wrote, every header's key has a non-empty service
\* list, the section of the document holds no placeholder line, and the
\* paragraph under each subheading names every service of the stack of its key.
C10_NoPlaceholder ==
    (pc = "done" /\ written) =>
        LET sec == SectionOf(readme.lines)
        IN  /\ \A i \in 1..Len(stack_headers) :
                 /\ stack_headers[i].key \in DOMAIN stacks
                 /\ stacks[stack_headers[i].key] # <<>>
            /\ \A n \in 1..Len(sec) : sec[n].k # "placeholder"
            /\ Len(sec) = 4 + 4 * Len(stack_headers)
            /\ \A i \in 1..Len(stack_headers) :
                 /\ sec[4 * i + 1] = H3Line(stack_headers[i].display)
                 /\ sec[4 * i + 3].k = "para"
                 /\ \A n \in 1..Len(stacks[stack_headers[i].key]) :
                      \E it \in ItemsIn(<<sec[4 * i + 3]>>) :
                         Lower(it.text) =
                            Lower(Capitalize(stacks[stack_headers[i].key][n].name))

\* two subheadings of one key, a stack of two services
C10_Witness ==
    /\ pc = "done"
    /\ written
    /\ Len(stack_headers) = 2
    /\ stack_headers[1].key = stack_headers[2].key
    /\ Len(stacks[stack_headers[1].key]) = 2

====
